---- MODULE Spec2Model ----
(***************************************************************************)
(* Call-session engine of ai_voice_journal.                                *)
(*                                                                         *)
(*   player    the useSimpleAudioPlayer hook (src/unnamed/part_004)        *)
(*   services  the GeminiLiveService instances (src/services/gemini-live)  *)
(*   session   the useCallSession hook (src/hooks/useCallSession.ts)       *)
(*                                                                         *)
(* Handlers run to completion on one JavaScript thread; a step of the      *)
(* model is one task (a timer callback, a native promise settling, an      *)
(* inbound message, a user call) together with the microtasks it queues.   *)
(* setTimeout delays are not measured: a pending timer may fire at any     *)
(* later step, except that timers of one kind fire in creation order.      *)
(***************************************************************************)
EXTENDS Integers, Sequences, FiniteSets, TLC

VARIABLES player, services, session, cur, hist, app

vars == <<player, services, session, cur, hist, app>>

(***************************************************************************)
(* Bounds of the model.                                                    *)
(***************************************************************************)
MaxTurn == 3        \* turn ids minted in one run
MaxInflight == 2    \* playSound calls awaiting the native promise
MaxGrace == 1       \* pending onTurnComplete grace timers

TurnIds == 0..MaxTurn
Chunks == {"short", "ok"}   \* base64 payload shorter than 100 chars / playable

(***************************************************************************)
(* Audio I/O coordinator: useSimpleAudioPlayer.                            *)
(***************************************************************************)
PlayerInit ==
    [ pendingChunks |-> 0,        \* pendingChunksRef
      isPlaying     |-> FALSE,    \* React state isPlaying
      isAiPlaying   |-> FALSE,    \* isAiPlayingRef
      isInterrupted |-> FALSE,    \* isInterruptedRef
      isStopping    |-> FALSE,    \* isStoppingRef
      turnId        |-> 0,        \* turnIdRef (the n-th id minted)
      inflight      |-> [t \in TurnIds |-> 0],  \* playSound awaits, by tag
      stopPc        |-> "idle",   \* stopPlaying: idle / clear / stop
      intWaiting    |-> FALSE,    \* an interruptAI awaits its stopPlaying()
      graceTimers   |-> 0,        \* pending onTurnComplete timeouts
      cooldown      |-> TRUE,     \* Date.now() - lastPlaybackTimeRef < 1500
      wasSpeaking   |-> FALSE,    \* wasSpeakingRef
      speechStartTimer |-> FALSE, \* speechStartTimerRef holds a pending timer
      speechEndTimer   |-> FALSE, \* speechEndTimerRef holds a pending timer
      micOn         |-> FALSE,    \* native microphone delivers frames
      micPending    |-> FALSE,    \* startMicrophone awaits
      isMuted       |-> FALSE,    \* isMutedRef (React state isMuted after a render)
      muteUpdates   |-> 0 ]       \* setIsMuted updaters queued for the next render

InflightTotal(p) ==
    LET RECURSIVE Sum(_)
        Sum(t) == IF t < 0 THEN 0 ELSE p.inflight[t] + Sum(t - 1)
    IN Sum(MaxTurn)

\* turnIdRef.current = `turn-${Date.now()}`: a token not minted before
mintTurnId(p) == [p EXCEPT !.turnId = p.turnId + 1]

\* bound: a further mint, and the one a waiting interruptAI still owes, fit
CanMint(p) == p.turnId + (IF p.intWaiting THEN 1 ELSE 0) < MaxTurn

\* pendingChunksRef.current = pendingChunksRef.current - 1, without the clamp
decrementUnclamped(p) ==
    LET n == p.pendingChunks - 1
    IN [p EXCEPT !.pendingChunks = n,
                 !.isPlaying = IF n = 0 THEN FALSE ELSE @,
                 !.cooldown = IF n = 0 THEN TRUE ELSE @]

\* Math.max(0, pendingChunks - 1); at zero setIsPlaying(false) and
\* lastPlaybackTimeRef = Date.now()
decrementPending(p) ==
    LET n == IF p.pendingChunks - 1 > 0 THEN p.pendingChunks - 1 ELSE 0
    IN [p EXCEPT !.pendingChunks = n,
                 !.isPlaying = IF n = 0 THEN FALSE ELSE @,
                 !.cooldown = IF n = 0 THEN TRUE ELSE @]

\* playAudio up to its await: rejected while isInterrupted; otherwise the
\* counter is incremented, a short payload is dropped at once, a playable one
\* is submitted to playSound tagged with the current turn id.
playAudio(p, chunk) ==
    IF p.isInterrupted THEN p
    ELSE LET q == [p EXCEPT !.pendingChunks = @ + 1,
                            !.isPlaying = TRUE,
                            !.isAiPlaying = TRUE]
         IN IF chunk = "short"
            THEN decrementPending(q)
            ELSE [q EXCEPT !.inflight[p.turnId] = @ + 1]

\* the continuation of playAudio without its decrement
playSoundSettledNoDecrement(p, tag) == [p EXCEPT !.inflight[tag] = @ - 1]

\* the continuation of playAudio after playSound settles (resolve or reject)
playSoundSettled(p, tag) ==
    decrementPending([p EXCEPT !.inflight[tag] = @ - 1])

\* stopPlaying up to its first await
stopPlaying(p) ==
    IF p.isStopping THEN p
    ELSE [p EXCEPT !.isStopping = TRUE,
                   !.pendingChunks = 0,
                   !.isPlaying = FALSE,
                   !.isAiPlaying = FALSE,
                   !.stopPc = "clear"]

\* interruptAI after `await stopPlaying()`: re-mint, clear the flag
interruptResume(p) ==
    [mintTurnId(p) EXCEPT !.isInterrupted = FALSE]

\* interruptAI from its first line; when stopPlaying() returned at once (a stop
\* is already running) the continuation is a microtask of the same task
interruptAI(p) ==
    LET q == [p EXCEPT !.isInterrupted = TRUE]
    IN IF q.isStopping
       THEN interruptResume(stopPlaying(q))
       ELSE [stopPlaying(q) EXCEPT !.intWaiting = TRUE]

\* onTurnComplete: setTimeout(..., 500)
onTurnComplete(p) == [p EXCEPT !.graceTimers = @ + 1]

\* the onTurnComplete timeout's callback
graceTimeout(p) ==
    LET q == [p EXCEPT !.graceTimers = @ - 1]
    IN IF q.pendingChunks = 0
       THEN [q EXCEPT !.isPlaying = FALSE, !.isAiPlaying = FALSE,
                      !.cooldown = TRUE]
       ELSE q

\* stopPlaying after stopSound settled: finally isStoppingRef = false; an
\* interruptAI awaiting this stopPlaying() resumes in the same task
stopSettled(p) ==
    LET q == [p EXCEPT !.isStopping = FALSE, !.stopPc = "idle"]
    IN IF q.intWaiting
       THEN interruptResume([q EXCEPT !.intWaiting = FALSE])
       ELSE q

\* processVAD without the cool-down return
processVADNoCooldown(p, level) ==
    IF p.pendingChunks > 0 \/ p.isAiPlaying THEN p
    ELSE IF level = "loud" /\ ~p.wasSpeaking
         THEN [p EXCEPT !.speechEndTimer = FALSE, !.speechStartTimer = TRUE]
    ELSE IF level = "quiet" /\ p.wasSpeaking
         THEN [p EXCEPT !.speechStartTimer = FALSE, !.speechEndTimer = TRUE]
    ELSE p

\* processVAD on one frame; level is the frame's RMS against the thresholds:
\* "loud" > speechThreshold, "quiet" < silenceThreshold, "mid" in between
processVAD(p, level) ==
    IF p.pendingChunks > 0 \/ p.isAiPlaying THEN p
    ELSE IF p.cooldown THEN p
    ELSE IF level = "loud" /\ ~p.wasSpeaking
         THEN [p EXCEPT !.speechEndTimer = FALSE, !.speechStartTimer = TRUE]
    ELSE IF level = "quiet" /\ p.wasSpeaking
         THEN [p EXCEPT !.speechStartTimer = FALSE, !.speechEndTimer = TRUE]
    ELSE p

\* the speech-start debounce callback without wasSpeakingRef.current = true
speechStartTimeoutNotSpeaking(p) == [p EXCEPT !.speechStartTimer = FALSE]

\* the speech-start debounce callback, before it calls onSpeechStart
speechStartTimeout(p) ==
    [p EXCEPT !.wasSpeaking = TRUE, !.speechStartTimer = FALSE]

\* the speech-end debounce callback without wasSpeakingRef.current = false
speechEndTimeoutStillSpeaking(p) == [p EXCEPT !.speechEndTimer = FALSE]

\* the speech-end debounce callback, before it calls onSpeechEnd
speechEndTimeout(p) ==
    [p EXCEPT !.wasSpeaking = FALSE, !.speechEndTimer = FALSE]

\* startRecording up to `await startMicrophone`
startRecording(p) == [mintTurnId(p) EXCEPT !.micPending = TRUE]

\* startRecording after startMicrophone settled
micStarted(p, ok) ==
    [p EXCEPT !.micPending = FALSE, !.micOn = IF ok THEN TRUE ELSE @]

\* stopRecording: VAD timers cleared, subscription removed, stopMicrophone
\* (issued after any pending startMicrophone, which it therefore undoes)
stopRecording(p) ==
    [p EXCEPT !.speechStartTimer = FALSE, !.speechEndTimer = FALSE,
              !.wasSpeaking = FALSE, !.micOn = FALSE, !.micPending = FALSE]

(***************************************************************************)
(* The hook driven directly by a client: any call at any time.             *)
(***************************************************************************)
Others ==
    /\ UNCHANGED <<services, session, cur, app>>
    /\ hist' = [hist EXCEPT !.op = "step", !.emitted = <<>>]

PlayAudioCall ==
    \E chunk \in Chunks :
        /\ InflightTotal(player) < MaxInflight
        /\ player' = playAudio(player, chunk)
        /\ Others

PlaySoundSettle ==
    \E tag \in TurnIds, ok \in BOOLEAN :
        /\ player.inflight[tag] > 0
        /\ player' = playSoundSettled(player, tag)
        /\ Others

StopPlayingCall ==
    /\ player' = stopPlaying(player)
    /\ Others

\* clearSoundQueueByTurnId settled (a rejection is caught and logged)
ClearQueueSettle ==
    /\ player.stopPc = "clear"
    /\ player' = [player EXCEPT !.stopPc = "stop"]
    /\ Others

InterruptAICall ==
    /\ CanMint(player)
    /\ player' = interruptAI(player)
    /\ Others

\* hist.tcId observes the turn id at the call
OnTurnCompleteCall ==
    /\ player.graceTimers < MaxGrace
    /\ player' = onTurnComplete(player)
    /\ hist' = [hist EXCEPT !.op = "step", !.emitted = <<>>,
                            !.tcId = player.turnId]
    /\ UNCHANGED <<services, session, cur, app>>

GraceTimerFire ==
    /\ player.graceTimers > 0
    /\ player' = graceTimeout(player)
    /\ Others

\* stopSound settled (a rejection is caught and logged)
StopSoundSettle ==
    /\ player.stopPc = "stop"
    /\ player' = stopSettled(player)
    /\ Others

MicStartSettle ==
    \E ok \in BOOLEAN :
        /\ player.micPending
        /\ player' = micStarted(player, ok)
        /\ Others

\* 1.5 s have passed since lastPlaybackTimeRef was set
CooldownElapse ==
    /\ player.cooldown
    /\ player' = [player EXCEPT !.cooldown = FALSE]
    /\ Others

(***************************************************************************)
(* The voice-activity detector in time.  The microphone delivers a frame   *)
(* every 100 ms, so a debounce timeout is counted in frames: the callback  *)
(* of a timeout of n frames runs after n - 1 frames have followed the      *)
(* frame that armed it and before the frame after the n-th is delivered.   *)
(* hist.vad observes the detector: the level of the last frame, the frames *)
(* delivered since each pending timer was armed, whether a frame of the    *)
(* opposite class was classified while it was pending, the length of the   *)
(* current run of classified loud frames that began while not speaking,    *)
(* and the speech-start events fired during that run.                      *)
(***************************************************************************)
SpeechDebounceFrames == 3    \* speechDebounceMs / frame interval
SilenceDebounceFrames == 5   \* silenceDebounceMs / frame interval
MaxRun == 5                  \* loud frames counted in one run
MaxRunStarts == 2            \* speech-start events counted in one run

Levels == {"loud", "mid", "quiet"}

VadInit ==
    [ level |-> "none", startAge |-> 0, endAge |-> 0,
      startOppo |-> FALSE, endOppo |-> FALSE, run |-> 0, runStarts |-> 0 ]

MaxMuteUpdates == 2          \* setIsMuted updaters queued at once

\* toggleMute: setIsMuted(prev => ...) with the ref written inside the
\* updater; React runs the updater at once when the component has no update
\* pending (eager) and at the next render otherwise
toggleMute(p, eager) ==
    IF eager THEN [p EXCEPT !.isMuted = ~@]
    ELSE [p EXCEPT !.muteUpdates = @ + 1]

\* a render runs the queued updaters, each negating the previous value
renderMute(p) ==
    [p EXCEPT !.isMuted = IF p.muteUpdates % 2 = 1 THEN ~@ ELSE @,
              !.muteUpdates = 0]

\* onAudioStream without the check of isMutedRef
onAudioStreamUnmuted(p, level) ==
    [p |-> processVAD(p, level), calls |-> <<"audioData">>]

\* onAudioStream on a non-empty frame: the hook afterwards and the callback
\* it invoked (onAudioData)
onAudioStream(p, level) ==
    IF p.isMuted THEN [p |-> p, calls |-> <<>>]
    ELSE [p |-> processVAD(p, level), calls |-> <<"audioData">>]

\* the two early returns of processVAD
vadSuppressed(p) == p.pendingChunks > 0 \/ p.isAiPlaying \/ p.cooldown

\* onAudioStream delivers a frame to processVAD
VadFrame ==
    \E level \in Levels :
        LET q == onAudioStream(player, level).p
            v == hist.vad
            classified == ~player.isMuted /\ ~vadSuppressed(player)
            run == IF level = "loud" /\ classified /\ (v.run > 0 \/ ~player.wasSpeaking)
                   THEN IF v.run < MaxRun THEN v.run + 1 ELSE MaxRun
                   ELSE 0
        IN /\ player.micOn
           /\ ~(player.speechStartTimer /\ v.startAge >= SpeechDebounceFrames)
           /\ ~(player.speechEndTimer /\ v.endAge >= SilenceDebounceFrames)
           /\ player' = q
           /\ hist' = [hist EXCEPT
                 !.op = "frame",
                 !.emitted = onAudioStream(player, level).calls,
                 !.vad = [ level |-> level,
                           startAge |-> IF q.speechStartTimer /\ player.speechStartTimer
                                        THEN v.startAge + 1 ELSE 0,
                           endAge |-> IF q.speechEndTimer /\ player.speechEndTimer
                                      THEN v.endAge + 1 ELSE 0,
                           startOppo |-> /\ q.speechStartTimer /\ player.speechStartTimer
                                         /\ v.startOppo \/ (level = "quiet" /\ classified),
                           endOppo |-> /\ q.speechEndTimer /\ player.speechEndTimer
                                       /\ v.endOppo \/ (level = "loud" /\ classified),
                           run |-> run,
                           runStarts |-> IF run = 0 \/ v.run = 0 THEN 0 ELSE v.runStarts ]]
           /\ UNCHANGED <<services, session, cur, app>>

\* the speech-start timeout's callback: onSpeechStart is called
VadSpeechStartFire ==
    /\ player.speechStartTimer
    /\ hist.vad.startAge >= SpeechDebounceFrames - 1
    /\ hist.vad.runStarts < MaxRunStarts
    /\ player' = speechStartTimeout(player)
    /\ hist' = [hist EXCEPT
          !.op = "speechStartTimeout", !.emitted = <<"speechStart">>,
          !.vad = [@ EXCEPT !.startAge = 0, !.startOppo = FALSE,
                            !.runStarts = IF hist.vad.run > 0 THEN @ + 1 ELSE 0]]
    /\ UNCHANGED <<services, session, cur, app>>

\* the speech-end timeout's callback: onSpeechEnd is called
VadSpeechEndFire ==
    /\ player.speechEndTimer
    /\ hist.vad.endAge >= SilenceDebounceFrames - 1
    /\ player' = speechEndTimeout(player)
    /\ hist' = [hist EXCEPT
          !.op = "speechEndTimeout", !.emitted = <<"speechEnd">>,
          !.vad = [@ EXCEPT !.endAge = 0, !.endOppo = FALSE]]
    /\ UNCHANGED <<services, session, cur, app>>

VadStartRecording ==
    /\ ~player.micOn /\ ~player.micPending
    /\ player.turnId < MaxTurn
    /\ player' = startRecording(player)
    /\ Others

VadStopRecording ==
    /\ player.micOn \/ player.micPending
    /\ player' = stopRecording(player)
    /\ hist' = [hist EXCEPT !.op = "step", !.emitted = <<>>, !.vad = VadInit]
    /\ UNCHANGED <<services, session, cur, app>>

ToggleMuteCall ==
    \E eager \in BOOLEAN :
        /\ eager => player.muteUpdates = 0
        /\ player.muteUpdates < MaxMuteUpdates
        /\ player' = toggleMute(player, eager)
        /\ hist' = [hist EXCEPT !.op = "toggleMute", !.emitted = <<>>]
        /\ UNCHANGED <<services, session, cur, app>>

MuteRender ==
    /\ player.muteUpdates > 0
    /\ player' = renderMute(player)
    /\ hist' = [hist EXCEPT !.op = "render", !.emitted = <<>>]
    /\ UNCHANGED <<services, session, cur, app>>

\* the microphone and the VAD with the mute toggle, nothing being played
MuteNext ==
    \/ VadStartRecording
    \/ MicStartSettle
    \/ VadStopRecording
    \/ VadFrame
    \/ VadSpeechStartFire
    \/ VadSpeechEndFire
    \/ CooldownElapse
    \/ ToggleMuteCall
    \/ MuteRender

VadNext ==
    \/ VadStartRecording
    \/ MicStartSettle
    \/ VadStopRecording
    \/ VadFrame
    \/ VadSpeechStartFire
    \/ VadSpeechEndFire
    \/ PlayAudioCall
    \/ PlaySoundSettle
    \/ OnTurnCompleteCall
    \/ GraceTimerFire
    \/ CooldownElapse

(***************************************************************************)
(* Transport client: GeminiLiveService.  Text is a sequence of characters  *)
(* over " " (whitespace), "a" (any other character) and "(" (the reserved  *)
(* full-width parenthesis that marks a system directive).  The counters    *)
(* silencePromptCount and audioChunkCount are written and never read, and  *)
(* are left out.                                                           *)
(***************************************************************************)
MaxAcc == 1         \* characters held by one accumulator
MaxLogs == 1        \* entries of conversationLogs

ServiceInit ==
    [ ws             |-> "null",   \* this.ws: null / connecting / open / closed
      closing        |-> "no",     \* a socket closed by disconnect(), its onclose
                                   \* due: "live" if the setup had completed
                                   \* (content may still arrive), else "idle"
      setupComplete  |-> FALSE,
      isInterrupted  |-> FALSE,
      isAudioSendingPaused |-> FALSE,
      currentAiResponse |-> <<>>,
      currentUserInput  |-> <<>>,
      conversationLogs  |-> <<>>,
      currentMood    |-> "neutral",
      turnCount      |-> 0,        \* modulo 5, the only way it is read
      reminders      |-> 0 ]       \* pending 100 ms reminder timeouts

RECURSIVE trimStart(_)
trimStart(s) ==
    IF s # <<>> /\ Head(s) = " " THEN trimStart(Tail(s)) ELSE s

RECURSIVE trimEnd(_)
trimEnd(s) ==
    IF s # <<>> /\ s[Len(s)] = " " THEN trimEnd(SubSeq(s, 1, Len(s) - 1)) ELSE s

\* String.prototype.trim
trim(s) == trimEnd(trimStart(s))

\* replace(/\s+/g, '')
stripSpaces(s) == SelectSeq(s, LAMBDA c : c # " ")

\* recordUserMessage / recordAiMessage
recordMessage(t, speaker, text) ==
    IF trim(text) = <<>> THEN t
    ELSE [t EXCEPT !.conversationLogs =
              Append(@, [speaker |-> speaker, text |-> trim(text)])]

\* finalizeUserInput without the reset of the accumulator
finalizeUserInputKeepsText(t) ==
    IF trim(t.currentUserInput) # <<>>
    THEN recordMessage(t, "user", stripSpaces(trim(t.currentUserInput)))
    ELSE t

finalizeUserInput(t) ==
    IF trim(t.currentUserInput) # <<>>
    THEN [recordMessage(t, "user", stripSpaces(trim(t.currentUserInput)))
              EXCEPT !.currentUserInput = <<>>]
    ELSE t

finalizeAiResponse(t) ==
    IF trim(t.currentAiResponse) # <<>>
    THEN [recordMessage(t, "ai", t.currentAiResponse)
              EXCEPT !.currentAiResponse = <<>>]
    ELSE t

sendInterrupt(t) == [t EXCEPT !.isInterrupted = TRUE]

pauseAudioSending(t) == [t EXCEPT !.isAudioSendingPaused = TRUE]

resumeAudioSending(t) == [t EXCEPT !.isAudioSendingPaused = FALSE]

isReady(t) == t.ws = "open" /\ t.setupComplete

\* connect(): this.ws = new WebSocket(url)
connectService(t) == [t EXCEPT !.ws = "connecting"]

\* disconnect() that also empties the transcript, as resetConversation does
disconnectServiceClearsLogs(t) ==
    [t EXCEPT !.closing = IF t.ws = "open" /\ t.setupComplete THEN "live"
                          ELSE IF t.ws \in {"connecting", "open"} THEN "idle"
                          ELSE @,
              !.ws = "null",
              !.setupComplete = FALSE,
              !.isInterrupted = FALSE,
              !.conversationLogs = <<>>]

\* disconnect(): an existing socket is closed (its onclose fires later)
disconnectService(t) ==
    [t EXCEPT !.closing = IF t.ws = "open" /\ t.setupComplete THEN "live"
                          ELSE IF t.ws \in {"connecting", "open"} THEN "idle"
                          ELSE @,
              !.ws = "null",
              !.setupComplete = FALSE,
              !.isInterrupted = FALSE]

\* the parts loop of handleMessage: the accumulator after the text parts
RECURSIVE partsText(_)
partsText(parts) ==
    IF parts = <<>> THEN <<>>
    ELSE (IF Head(parts).type = "text" THEN Head(parts).data ELSE <<>>)
             \o partsText(Tail(parts))

\* the parts loop of handleMessage: the events emitted, in order
RECURSIVE partsEvents(_)
partsEvents(parts) ==
    IF parts = <<>> THEN <<>>
    ELSE (IF Head(parts).type = "audio"
          THEN <<[type |-> "audio", data |-> Head(parts).data]>>
          ELSE IF Head(parts).data # <<>>
          THEN <<[type |-> "text", data |-> Head(parts).data]>>
          ELSE <<>>)
             \o partsEvents(Tail(parts))

Ev(type) == [type |-> type, data |-> <<>>]

\* handleMessage past the interrupted check: parts, transcriptions, turnComplete
handleServerContent(t, m) ==
    LET t1 == [t EXCEPT !.currentAiResponse = @ \o partsText(m.parts),
                        !.currentUserInput = @ \o m.inputTranscription]
        t2 == [t1 EXCEPT !.currentAiResponse = @ \o m.outputTranscription]
        e1 == partsEvents(m.parts)
              \o (IF m.inputTranscription # <<>>
                  THEN <<[type |-> "inputTranscript", data |-> m.inputTranscription]>>
                  ELSE <<>>)
    IN IF m.turnComplete
       THEN LET t3 == finalizeAiResponse(finalizeUserInput(t2))
                n == (t3.turnCount + 1) % 5
            IN [svc |-> [t3 EXCEPT !.turnCount = n,
                                   !.reminders = IF n = 0 THEN @ + 1 ELSE @],
                events |-> e1 \o <<Ev("turnComplete")>>]
       ELSE [svc |-> t2, events |-> e1]

\* handleMessage without the interrupted-suppression branch
handleMessageUnsuppressed(t, m) ==
    IF m.kind = "setupComplete"
    THEN [svc |-> [t EXCEPT !.setupComplete = TRUE], events |-> <<Ev("connected")>>]
    ELSE IF m.kind # "serverContent"
    THEN [svc |-> t, events |-> <<>>]
    ELSE handleServerContent([t EXCEPT !.isInterrupted =
                                 IF m.turnComplete THEN FALSE ELSE @], m)

\* handleMessage on a parsed message: the service afterwards and the events
\* it emitted, in order.  No listener reads a field that handleMessage writes
\* after the emit, so the listeners are run after it.
handleMessage(t, m) ==
    IF m.kind = "setupComplete"
    THEN [svc |-> [t EXCEPT !.setupComplete = TRUE], events |-> <<Ev("connected")>>]
    ELSE IF m.kind # "serverContent"
    THEN [svc |-> t, events |-> <<>>]
    ELSE IF t.isInterrupted
    THEN IF m.turnComplete
         THEN [svc |-> [t EXCEPT !.isInterrupted = FALSE],
               events |-> <<Ev("turnComplete")>>]
         ELSE [svc |-> t, events |-> <<>>]
    ELSE handleServerContent(t, m)

\* sendAudioChunk without the check of isAudioSendingPaused
sendAudioChunkWhilePaused(t) ==
    IF t.ws # "open" THEN <<>>
    ELSE IF ~t.setupComplete THEN <<>>
    ELSE <<"audio">>

\* sendAudioChunk: the messages it puts on the wire (it changes no field
\* that is read)
sendAudioChunk(t) ==
    IF t.ws # "open" THEN <<>>
    ELSE IF ~t.setupComplete THEN <<>>
    ELSE IF t.isAudioSendingPaused THEN <<>>
    ELSE <<"audio">>

\* sendText: the messages it puts on the wire
sendTextWire(t) ==
    IF t.ws # "open" THEN <<>>
    ELSE IF ~t.setupComplete THEN <<>>
    ELSE <<"text">>

\* sendText: the readiness gate, then the optional transcript entry
sendText(t, text, recordInHistory) ==
    IF ~isReady(t) THEN t
    ELSE IF recordInHistory /\ ~(text # <<>> /\ Head(text) = "(")
    THEN recordMessage(t, "user", text)
    ELSE t

\* sendLightSilencePrompt, sendDeepSilencePrompt: the prompt text goes to
\* sendText with recordInHistory = false
sendLightSilencePrompt(t) == sendText(t, <<"a">>, FALSE)

sendDeepSilencePrompt(t) == sendText(t, <<"a">>, FALSE)

(***************************************************************************)
(* The transport driven directly by a client, with no listener attached.   *)
(* hist.op names the last step (for a message, its kind and whether it     *)
(* carried turnComplete); hist.emitted holds the events that step emitted, *)
(* hist.sent the messages it put on the wire.                              *)
(***************************************************************************)
MaxRem == 1         \* pending reminder timeouts

Frags == {<<>>, <<" ">>, <<"a">>}     \* absent or empty / whitespace / text

PartSeqs ==
    { <<>>,
      <<[type |-> "audio", data |-> "ok"]>>,
      <<[type |-> "audio", data |-> "ok"], [type |-> "text", data |-> <<"a">>]>> }

ServerContents ==
    [ kind : {"serverContent"}, parts : PartSeqs, inputTranscription : Frags,
      outputTranscription : Frags, turnComplete : BOOLEAN ]

Messages ==
    ServerContents
        \cup { [kind |-> "setupComplete"], [kind |-> "other"] }

Texts == {<<"a">>, <<" ", "a">>, <<"(", "a">>}

EventTypes(events) == [i \in 1..Len(events) |-> events[i].type]

WithinTextBounds(t) ==
    /\ Len(t.currentAiResponse) <= MaxAcc
    /\ Len(t.currentUserInput) <= MaxAcc
    /\ Len(t.conversationLogs) <= MaxLogs
    /\ t.reminders <= MaxRem

MsgOp(m) ==
    IF m.kind = "serverContent" /\ m.turnComplete THEN "serverContent+turnComplete"
    ELSE m.kind

TSend(op, t, events, sent) ==
    /\ WithinTextBounds(t)
    /\ services' = [services EXCEPT ![1] = t]
    /\ hist' = [hist EXCEPT !.op = op, !.emitted = EventTypes(events),
                            !.sent = sent]
    /\ UNCHANGED <<player, session, cur, app>>

TStep(op, t, events) == TSend(op, t, events, <<>>)

TConnect ==
    /\ services[1].ws = "null" /\ services[1].closing = "no"
    /\ TStep("connect", connectService(services[1]), <<>>)

\* onopen: the setup message is sent
TSocketOpen ==
    /\ services[1].ws = "connecting"
    /\ TSend("onopen", [services[1] EXCEPT !.ws = "open"], <<>>, <<"setup">>)

\* onclose: the server or the network closed the socket, or the close that
\* disconnect() started has finished
TSocketClose ==
    \/ /\ services[1].ws \in {"connecting", "open"}
       /\ TStep("onclose", [services[1] EXCEPT !.ws = "closed"], <<Ev("disconnected")>>)
    \/ /\ services[1].closing # "no"
       /\ TStep("onclose", [services[1] EXCEPT !.closing = "no"], <<Ev("disconnected")>>)

\* onmessage; a message read from a Blob is handled after an await, so one
\* received before disconnect() may be handled after it
TMessage(m) ==
    /\ services[1].ws = "open" \/ services[1].closing # "no"
    /\ LET r == handleMessage(services[1], m)
       IN TStep(MsgOp(m), r.svc, r.events)

TReceive == \E m \in Messages : TMessage(m)

TSendInterrupt ==
    TStep("sendInterrupt", sendInterrupt(services[1]), <<Ev("interrupted")>>)

TSendText ==
    \E text \in Texts, rec \in BOOLEAN :
        TSend("sendText", sendText(services[1], text, rec), <<>>,
              sendTextWire(services[1]))

TSendAudioChunk ==
    TSend("sendAudioChunk", services[1], <<>>, sendAudioChunk(services[1]))

TPause == TStep("pauseAudioSending", pauseAudioSending(services[1]), <<>>)

TResume == TStep("resumeAudioSending", resumeAudioSending(services[1]), <<>>)

TDisconnect == TStep("disconnect", disconnectService(services[1]), <<>>)

\* the reminder timeout: sendText(reminder, false)
TReminderFire ==
    /\ services[1].reminders > 0
    /\ TSend("reminder",
             sendText([services[1] EXCEPT !.reminders = @ - 1], <<"(", "a">>, FALSE),
             <<>>, sendTextWire(services[1]))

TransportNext ==
    \/ TConnect
    \/ TSocketOpen
    \/ TSocketClose
    \/ TReceive
    \/ TSendInterrupt
    \/ TSendText
    \/ TPause
    \/ TResume
    \/ TDisconnect
    \/ TReminderFire

(***************************************************************************)
(* The transport's outbound gate: the same client with sendAudioChunk,     *)
(* receiving messages that carry no text.                                  *)
(***************************************************************************)
GateMessages ==
    { m \in Messages :
          m.kind = "serverContent" =>
              /\ m.inputTranscription = <<>> /\ m.outputTranscription = <<>>
              /\ \A i \in 1..Len(m.parts) : m.parts[i].type = "audio" }

GateReceive == \E m \in GateMessages : TMessage(m)

GateNext ==
    \/ TConnect
    \/ TSocketOpen
    \/ TSocketClose
    \/ GateReceive
    \/ TSendInterrupt
    \/ TSendText
    \/ TSendAudioChunk
    \/ TPause
    \/ TResume
    \/ TDisconnect
    \/ TReminderFire

(***************************************************************************)
(* The transport's turn finalization alone: transcription fragments,       *)
(* turnComplete, sendInterrupt and sendText, with room for two transcript  *)
(* entries.  hist.fin says that the last step was a turnComplete message   *)
(* that ran the finalizers (the interrupted flag was not set).             *)
(***************************************************************************)
MaxTurnLogs == 2    \* entries of conversationLogs, turn finalization

TurnMessages ==
    { m \in ServerContents : m.parts = <<>> } \cup { [kind |-> "setupComplete"] }

\* a serverContent message that carries turnComplete and nothing else
TurnCompleteOnly ==
    [ kind |-> "serverContent", parts |-> <<>>, inputTranscription |-> <<>>,
      outputTranscription |-> <<>>, turnComplete |-> TRUE ]

WithinTurnBounds(t) ==
    /\ Len(t.currentAiResponse) <= MaxAcc
    /\ Len(t.currentUserInput) <= MaxAcc
    /\ Len(t.conversationLogs) <= MaxTurnLogs
    /\ t.reminders <= MaxRem

TurnStep(op, t, events) ==
    /\ WithinTurnBounds(t)
    /\ services' = [services EXCEPT ![1] = t]
    /\ hist' = [hist EXCEPT !.op = op, !.emitted = EventTypes(events),
                            !.fin = /\ op = "serverContent+turnComplete"
                                    /\ ~services[1].isInterrupted]
    /\ UNCHANGED <<player, session, cur, app>>

TurnConnect ==
    /\ services[1].ws = "null" /\ services[1].closing = "no"
    /\ TurnStep("connect", connectService(services[1]), <<>>)

TurnSocketOpen ==
    /\ services[1].ws = "connecting"
    /\ TurnStep("onopen", [services[1] EXCEPT !.ws = "open"], <<>>)

TurnSocketClose ==
    \/ /\ services[1].ws \in {"connecting", "open"}
       /\ TurnStep("onclose", [services[1] EXCEPT !.ws = "closed"],
                   <<Ev("disconnected")>>)
    \/ /\ services[1].closing # "no"
       /\ TurnStep("onclose", [services[1] EXCEPT !.closing = "no"],
                   <<Ev("disconnected")>>)

TurnReceive ==
    \E m \in TurnMessages :
        /\ services[1].ws = "open" \/ services[1].closing # "no"
        /\ LET r == handleMessage(services[1], m)
           IN TurnStep(MsgOp(m), r.svc, r.events)

TurnSendInterrupt ==
    TurnStep("sendInterrupt", sendInterrupt(services[1]), <<Ev("interrupted")>>)

TurnSendText ==
    \E text \in Texts, rec \in BOOLEAN :
        TurnStep("sendText", sendText(services[1], text, rec), <<>>)

TurnDisconnect == TurnStep("disconnect", disconnectService(services[1]), <<>>)

TurnReminderFire ==
    /\ services[1].reminders > 0
    /\ TurnStep("reminder",
                sendText([services[1] EXCEPT !.reminders = @ - 1], <<"(", "a">>, FALSE),
                <<>>)

TurnNext ==
    \/ TurnConnect
    \/ TurnSocketOpen
    \/ TurnSocketClose
    \/ TurnReceive
    \/ TurnSendInterrupt
    \/ TurnSendText
    \/ TurnDisconnect
    \/ TurnReminderFire

(***************************************************************************)
(* Call session: useCallSession, with the player and the transports it     *)
(* creates.  A handler is a function on the world w: the player w.p, the   *)
(* session refs w.s, the services created so far w.t, geminiServiceRef w.c *)
(* (an index into w.t, 0 for null) and w.log, the calls and state changes  *)
(* the running step has made, in order.                                    *)
(***************************************************************************)
MaxServices == 1    \* GeminiLiveService instances created in one run
MaxTc == 1          \* pending turnComplete timeouts of one stage
MaxSessionTurn == 2 \* turn ids minted in one run of the session
MaxSessionInflight == 1  \* playSound calls awaiting, in the session
MaxGreet == 1       \* pending greeting timeouts
MaxServerTurns == 2 \* turnComplete messages one transport receives

SessionInit ==
    [ callState         |-> "ENDED",  \* callStateRef
      isTurnCompleting  |-> FALSE,    \* isTurnCompletingRef
      isInterrupting    |-> FALSE,    \* isInterruptingRef
      lightSilenceTimer |-> FALSE,    \* the 15 s timeout is pending
      deepSilenceTimer  |-> FALSE,    \* the 30 s timeout is pending
      connects          |-> 0,        \* doConnect calls awaiting getUserSettings
      instructing       |-> {},       \* services awaiting generateSystemInstruction
      greetings         |-> 0,        \* pending 1000 ms greeting timeouts
      tc200             |-> 0,        \* pending 200 ms turnComplete timeouts
      tc1000            |-> 0 ]       \* pending 1000 ms turnComplete timeouts

World == [p |-> player, s |-> session, t |-> services, c |-> cur, log |-> <<>>]

Log(w, x) == [w EXCEPT !.log = Append(@, x)]

updateCallState(w, newState) ==
    IF w.s.callState # newState
    THEN Log([w EXCEPT !.s.callState = newState], newState)
    ELSE w

resetSilenceTimer(w) ==
    [w EXCEPT !.s.lightSilenceTimer = FALSE, !.s.deepSilenceTimer = FALSE]

startSilenceTimer(w) ==
    [w EXCEPT !.s.lightSilenceTimer = TRUE, !.s.deepSilenceTimer = TRUE]

\* a silence timeout's callback; which is the timer, prompt the prompt it sends
silenceTimeout(w, which, prompt) ==
    LET v == [w EXCEPT !.s[which] = FALSE]
    IN IF v.c # 0 /\ isReady(v.t[v.c])
       THEN LET u == [v EXCEPT !.t[v.c] = IF prompt = "lightPrompt"
                                          THEN sendLightSilencePrompt(@)
                                          ELSE sendDeepSilencePrompt(@)]
            IN updateCallState(Log(u, prompt), "AI_THINKING")
       ELSE v

\* the finally block of the barge-in's async function
bargeInFinally(w) ==
    LET v == [w EXCEPT !.s.isInterrupting = FALSE]
    IN IF v.s.callState # "ENDED" THEN updateCallState(v, "USER_TALKING") ELSE v

\* onSpeechStart without the reset of the turn-completing latch
onSpeechStartKeepsLatch(w) ==
    LET w1 == resetSilenceTimer(w)
    IN IF w1.s.callState = "AI_TALKING"
       THEN IF w1.s.isInterrupting THEN w1
            ELSE LET w2 == [w1 EXCEPT !.s.isInterrupting = TRUE]
                     w3 == IF w2.c # 0
                           THEN Log([w2 EXCEPT !.t[w2.c] = sendInterrupt(@)],
                                    "sendInterrupt")
                           ELSE w2
                     w4 == updateCallState(w3, "INTERRUPTED")
                     w5 == [w4 EXCEPT !.p = interruptAI(@)]
                 IN IF w5.p.intWaiting THEN w5 ELSE bargeInFinally(w5)
       ELSE updateCallState(w1, "USER_TALKING")

\* onSpeechStart, up to the await of interruptAI(); when interruptAI() does
\* not wait, the finally block runs in the same task
onSpeechStart(w) ==
    LET w1 == resetSilenceTimer(w)
    IN IF w1.s.callState = "AI_TALKING"
       THEN IF w1.s.isInterrupting THEN w1
            ELSE LET w2 == [w1 EXCEPT !.s.isInterrupting = TRUE,
                                      !.s.isTurnCompleting = FALSE]
                     w3 == IF w2.c # 0
                           THEN Log([w2 EXCEPT !.t[w2.c] = sendInterrupt(@)],
                                    "sendInterrupt")
                           ELSE w2
                     w4 == updateCallState(w3, "INTERRUPTED")
                     w5 == [w4 EXCEPT !.p = interruptAI(@)]
                 IN IF w5.p.intWaiting THEN w5 ELSE bargeInFinally(w5)
       ELSE updateCallState(w1, "USER_TALKING")

onSpeechEnd(w) == startSilenceTimer(updateCallState(w, "LISTENING"))

\* service.on('connected')
onConnected(w) ==
    [updateCallState(w, "LISTENING") EXCEPT !.p = startRecording(@),
                                            !.s.greetings = @ + 1]

\* the greeting timeout: service.sendText(greeting, false) writes to the wire
\* only; updateCallState(AI_THINKING)
greetingTimeout(w) ==
    updateCallState([w EXCEPT !.s.greetings = @ - 1], "AI_THINKING")

\* service.on('disconnected')
onDisconnected(w) ==
    resetSilenceTimer([updateCallState(w, "ENDED") EXCEPT !.p = stopRecording(@)])

\* service.on('audio') without the two latch checks
onAudioUnlatched(w, data) ==
    LET w1 == resetSilenceTimer(updateCallState(w, "AI_TALKING"))
    IN Log([w1 EXCEPT !.p = playAudio(@, data)], "playAudio")

\* service.on('audio') without the check of isInterruptingRef
onAudioDuringBargeIn(w, data) ==
    IF w.s.isTurnCompleting THEN w
    ELSE LET w1 == resetSilenceTimer(updateCallState(w, "AI_TALKING"))
         IN Log([w1 EXCEPT !.p = playAudio(@, data)], "playAudio")

\* service.on('audio')
onAudio(w, data) ==
    IF w.s.isTurnCompleting \/ w.s.isInterrupting THEN w
    ELSE LET w1 == resetSilenceTimer(updateCallState(w, "AI_TALKING"))
         IN Log([w1 EXCEPT !.p = playAudio(@, data)], "playAudio")

\* service.on('turnComplete'), up to its setTimeout
onTurnCompleteEvent(w) ==
    LET w1 == [w EXCEPT !.s.isTurnCompleting = TRUE]
        w2 == IF w1.c # 0
              THEN [w1 EXCEPT !.t[w1.c] = pauseAudioSending(@)]
              ELSE w1
    IN [w2 EXCEPT !.p = onTurnComplete(@), !.s.tc200 = @ + 1]

\* the 200 ms timeout of the turnComplete handler
turnCompleteTimeout200(w) ==
    LET w1 == [w EXCEPT !.s.tc200 = @ - 1, !.s.tc1000 = @ + 1]
    IN IF w1.s.callState \notin {"ENDED", "USER_TALKING"}
       THEN startSilenceTimer(updateCallState(w1, "LISTENING"))
       ELSE w1

\* the nested 1000 ms timeout without resumeAudioSending()
turnCompleteTimeout1000NoResume(w) ==
    [w EXCEPT !.s.tc1000 = @ - 1, !.s.isTurnCompleting = FALSE]

\* the nested 1000 ms timeout of the turnComplete handler
turnCompleteTimeout1000(w) ==
    LET w1 == [w EXCEPT !.s.tc1000 = @ - 1, !.s.isTurnCompleting = FALSE]
    IN IF w1.c # 0
       THEN [w1 EXCEPT !.t[w1.c] = resumeAudioSending(@)]
       ELSE w1

\* the listener that doConnect registered for an event of its service
handleEvent(w, e) ==
    CASE e.type = "connected"    -> onConnected(w)
      [] e.type = "disconnected" -> onDisconnected(w)
      [] e.type = "audio"        -> onAudio(w, e.data)
      [] e.type = "turnComplete" -> onTurnCompleteEvent(w)
      [] OTHER                   -> w

RECURSIVE dispatch(_, _)
dispatch(w, events) ==
    IF events = <<>> THEN w
    ELSE dispatch(handleEvent(w, Head(events)), Tail(events))

\* doConnect up to `await StorageService.getUserSettings()`
doConnect(w) ==
    IF w.c # 0 /\ isReady(w.t[w.c]) THEN w
    ELSE [updateCallState(w, "CONNECTING") EXCEPT !.s.connects = @ + 1]

\* doConnect after the settings are read: the service is created and stored
\* in geminiServiceRef; with a systemInstruction given it is connected at
\* once, otherwise doConnect awaits generateSystemInstruction()
doConnectService(w, given) ==
    LET i == Len(w.t) + 1
        w1 == [w EXCEPT !.s.connects = @ - 1, !.c = i,
                        !.t = Append(@, IF given THEN connectService(ServiceInit)
                                        ELSE ServiceInit)]
    IN IF given THEN w1 ELSE [w1 EXCEPT !.s.instructing = @ \cup {i}]

\* doConnect after generateSystemInstruction() settled: service.connect()
doConnectInstruction(w, i) ==
    [w EXCEPT !.s.instructing = @ \ {i}, !.t[i] = connectService(@)]

disconnect(w) ==
    LET w1 == resetSilenceTimer(w)
        w2 == [w1 EXCEPT !.p = stopPlaying(stopRecording(@))]
        w3 == IF w2.c # 0
              THEN [w2 EXCEPT !.t[w2.c] = disconnectService(@), !.c = 0]
              ELSE w2
    IN updateCallState(w3, "ENDED")

(***************************************************************************)
(* Steps of the session.  hist.barge holds from the start of a barge-in    *)
(* until a transport receives a turnComplete or disconnect() ends the      *)
(* call; hist.disc holds from a disconnect() until the next connect().     *)
(***************************************************************************)
SessionMessages ==
    { [kind |-> "setupComplete"] }
        \cup { m \in [ kind : {"serverContent"},
                       parts : { <<>>, <<[type |-> "audio", data |-> "ok"]>> },
                       inputTranscription : {<<>>},
                       outputTranscription : {<<>>},
                       turnComplete : BOOLEAN ] :
                 m.parts # <<>> \/ m.turnComplete }

WithinSessionBounds(w) ==
    /\ w.p.turnId + (IF w.p.intWaiting THEN 1 ELSE 0) <= MaxSessionTurn
    /\ InflightTotal(w.p) <= MaxSessionInflight
    /\ w.p.graceTimers <= MaxGrace
    /\ w.s.greetings <= MaxGreet
    /\ w.s.tc200 <= MaxTc
    /\ w.s.tc1000 <= MaxTc
    /\ Len(w.t) + w.s.connects <= MaxServices

BargeInStarts(op) ==
    op = "speechStart" /\ session.callState = "AI_TALKING" /\ ~session.isInterrupting

\* the world after a step becomes the state
Commit(op, w, events) ==
    /\ player' = w.p
    /\ session' = w.s
    /\ services' = w.t
    /\ cur' = w.c
    /\ UNCHANGED app
    /\ hist' = [hist EXCEPT
                  !.op = op,
                  !.emitted = EventTypes(events),
                  !.barge = IF BargeInStarts(op) THEN TRUE
                            ELSE IF op \in {"serverContent+turnComplete", "disconnect"}
                            THEN FALSE
                            ELSE @,
                  !.disc = IF op = "disconnect" THEN TRUE
                           ELSE IF op = "connect" THEN FALSE
                           ELSE @]

Step(op, w, events) == WithinSessionBounds(w) /\ Commit(op, w, events)

Connect == Step("connect", doConnect(World), <<>>)

ConnectService ==
    \E given \in BOOLEAN :
        /\ session.connects > 0
        /\ Step("step", doConnectService(World, given), <<>>)

ConnectInstruction ==
    \E i \in session.instructing :
        Step("step", doConnectInstruction(World, i), <<>>)

Disconnect == Step("disconnect", disconnect(World), <<>>)

SocketOpen ==
    \E i \in 1..Len(services) :
        /\ services[i].ws = "connecting"
        /\ Step("step", [World EXCEPT !.t[i].ws = "open"], <<>>)

SocketClose ==
    \E i \in 1..Len(services) :
        \/ /\ services[i].ws \in {"connecting", "open"}
           /\ Step("step",
                   onDisconnected([World EXCEPT !.t[i].ws = "closed"]),
                   <<Ev("disconnected")>>)
        \/ /\ services[i].closing # "no"
           /\ Step("step",
                   onDisconnected([World EXCEPT !.t[i].closing = "no"]),
                   <<Ev("disconnected")>>)

\* onmessage of service i: handleMessage, then the listeners of its events
ReceiveResult(i, m) ==
    LET r == handleMessage(services[i], m)
    IN dispatch([World EXCEPT !.t[i] = r.svc], r.events)

\* the server sends setupComplete once, on an open socket, and content after
\* it; a content message read from a Blob may be handled after disconnect()
\* closed the socket
ReceiveOf(i, m) ==
    /\ IF m.kind = "setupComplete"
       THEN services[i].ws = "open" /\ ~services[i].setupComplete
       ELSE \/ services[i].ws = "open" /\ services[i].setupComplete
            \/ services[i].closing = "live"
    /\ m.kind = "serverContent" /\ m.turnComplete
           => services[i].turnCount < MaxServerTurns
    /\ Step(MsgOp(m), ReceiveResult(i, m), handleMessage(services[i], m).events)

Receive ==
    \E i \in 1..Len(services), m \in SessionMessages : ReceiveOf(i, m)

\* a microphone frame: processVAD, then onAudioData -> sendAudioChunk, which
\* writes to the wire only
MicFrame ==
    \E level \in {"loud", "quiet"} :
        /\ player.micOn
        /\ Step("step", [World EXCEPT !.p = processVAD(@, level)], <<>>)

\* the speech-start debounce callback with the session's onSpeechStart
SpeechStartResult == onSpeechStart([World EXCEPT !.p = speechStartTimeout(@)])

SpeechStart ==
    /\ player.speechStartTimer
    /\ Step("speechStart", SpeechStartResult, <<>>)

SpeechEnd ==
    /\ player.speechEndTimer
    /\ Step("step",
            onSpeechEnd([World EXCEPT !.p = speechEndTimeout(@)]), <<>>)

GreetingFire ==
    /\ session.greetings > 0
    /\ Step("step", greetingTimeout(World), <<>>)

LightSilenceFire ==
    /\ session.lightSilenceTimer
    /\ Step("step", silenceTimeout(World, "lightSilenceTimer", "lightPrompt"), <<>>)

\* the 30 s timeout fires after the 15 s timeout armed with it
DeepSilenceFire ==
    /\ session.deepSilenceTimer /\ ~session.lightSilenceTimer
    /\ Step("step", silenceTimeout(World, "deepSilenceTimer", "deepPrompt"), <<>>)

TurnCompleteFire200 ==
    /\ session.tc200 > 0
    /\ Step("step", turnCompleteTimeout200(World), <<>>)

TurnCompleteFire1000 ==
    /\ session.tc1000 > 0
    /\ Step("step", turnCompleteTimeout1000(World), <<>>)

\* stopSound settled; a barge-in awaiting interruptAI() finishes in this task
StopSoundSettled ==
    /\ player.stopPc = "stop"
    /\ LET w == [World EXCEPT !.p = stopSettled(@)]
       IN Step("step", IF player.intWaiting THEN bargeInFinally(w) ELSE w, <<>>)

(***************************************************************************)
(* Mood inference over the transcript.  A text is a sequence of words; the *)
(* word that is a mood's name stands for any keyword of MOOD_KEYWORDS of   *)
(* that mood, "a" for any other word.  Entries are recorded and the mood   *)
(* is inferred in any order.                                               *)
(***************************************************************************)
MaxMoodLogs == 4    \* entries of conversationLogs, mood inference

priorityOrder ==
    << "sad", "frustrated", "anxious", "tired", "excited", "happy", "calm", "neutral" >>

MOOD_KEYWORDS(mood) == IF mood = "neutral" THEN {} ELSE {mood}

\* recentTexts.join(' ')
RECURSIVE joinTexts(_)
joinTexts(texts) ==
    IF texts = <<>> THEN <<>>
    ELSE IF Len(texts) = 1 THEN texts[1]
    ELSE texts[1] \o <<" ">> \o joinTexts(Tail(texts))

\* keywords.some(keyword => combinedText.includes(keyword))
includesKeyword(combinedText, mood) ==
    \E k \in 1..Len(combinedText) : combinedText[k] \in MOOD_KEYWORDS(mood)

\* the loop over priorityOrder from position n on
RECURSIVE firstMood(_, _)
firstMood(combinedText, n) ==
    IF n > Len(priorityOrder) THEN "neutral"
    ELSE IF includesKeyword(combinedText, priorityOrder[n]) THEN priorityOrder[n]
    ELSE firstMood(combinedText, n + 1)

inferMoodFromTexts(recentTexts) == firstMood(joinTexts(recentTexts), 1)

\* slice(-3)
lastThree(s) == IF Len(s) <= 3 THEN s ELSE SubSeq(s, Len(s) - 2, Len(s))

\* the texts inferMood hands to inferMoodFromTexts:
\* conversationLogs.slice(-3).filter(user).map(text)
recentUserTexts(t) ==
    LET users == SelectSeq(lastThree(t.conversationLogs),
                           LAMBDA e : e.speaker = "user")
    IN [k \in 1..Len(users) |-> users[k].text]

inferMood(t) == [t EXCEPT !.currentMood = inferMoodFromTexts(recentUserTexts(t))]

MoodTexts == {<<"sad">>, <<"tired">>, <<"happy">>, <<"a">>}

MoodRecord ==
    \E speaker \in {"user", "ai"}, text \in MoodTexts :
        /\ Len(services[1].conversationLogs) < MaxMoodLogs
        /\ services' = [services EXCEPT ![1] = recordMessage(@, speaker, text)]
        /\ hist' = [hist EXCEPT !.op = "record", !.emitted = <<>>]
        /\ UNCHANGED <<player, session, cur, app>>

MoodInfer ==
    /\ services' = [services EXCEPT ![1] = inferMood(@)]
    /\ hist' = [hist EXCEPT !.op = "inferMood", !.emitted = <<>>]
    /\ UNCHANGED <<player, session, cur, app>>

MoodNext == MoodRecord \/ MoodInfer

(***************************************************************************)
(* The transport's transcript alone: text in both directions, turn ends,   *)
(* socket errors and disconnect(), with room for two transcript entries    *)
(* and no reminder.                                                        *)
(***************************************************************************)
MaxKeptLogs == 2    \* entries of conversationLogs, transcript
MaxLogTurns == 2    \* turnComplete messages handled, transcript

LogFrags == {<<>>, <<"a">>}

LogMessages ==
    { m \in ServerContents :
          /\ m.parts = <<>>
          /\ m.inputTranscription \in LogFrags
          /\ m.outputTranscription \in LogFrags }
        \cup { [kind |-> "setupComplete"] }

WithinLogBounds(t) ==
    /\ Len(t.currentAiResponse) <= MaxAcc
    /\ Len(t.currentUserInput) <= MaxAcc
    /\ Len(t.conversationLogs) <= MaxKeptLogs
    /\ t.turnCount <= MaxLogTurns
    /\ t.reminders = 0

LogStep(op, t, events) ==
    /\ WithinLogBounds(t)
    /\ services' = [services EXCEPT ![1] = t]
    /\ hist' = [hist EXCEPT !.op = op, !.emitted = EventTypes(events)]
    /\ UNCHANGED <<player, session, cur, app>>

LogConnect ==
    /\ services[1].ws = "null" /\ services[1].closing = "no"
    /\ LogStep("connect", connectService(services[1]), <<>>)

LogSocketOpen ==
    /\ services[1].ws = "connecting"
    /\ LogStep("onopen", [services[1] EXCEPT !.ws = "open"], <<>>)

\* onerror: the 'error' event is emitted and nothing else is done
LogSocketError ==
    /\ services[1].ws \in {"connecting", "open"}
    /\ LogStep("onerror", services[1], <<Ev("error")>>)

LogSocketClose ==
    \/ /\ services[1].ws \in {"connecting", "open"}
       /\ LogStep("onclose", [services[1] EXCEPT !.ws = "closed"],
                  <<Ev("disconnected")>>)
    \/ /\ services[1].closing # "no"
       /\ LogStep("onclose", [services[1] EXCEPT !.closing = "no"],
                  <<Ev("disconnected")>>)

LogReceive ==
    \E m \in LogMessages :
        /\ services[1].ws = "open" \/ services[1].closing # "no"
        /\ LET r == handleMessage(services[1], m)
           IN LogStep(MsgOp(m), r.svc, r.events)

LogSendInterrupt ==
    LogStep("sendInterrupt", sendInterrupt(services[1]), <<Ev("interrupted")>>)

LogSendText ==
    \E text \in Texts, rec \in BOOLEAN :
        LogStep("sendText", sendText(services[1], text, rec), <<>>)

LogDisconnect == LogStep("disconnect", disconnectService(services[1]), <<>>)

LogNext ==
    \/ LogConnect
    \/ LogSocketOpen
    \/ LogSocketError
    \/ LogSocketClose
    \/ LogReceive
    \/ LogSendInterrupt
    \/ LogSendText
    \/ LogDisconnect

(***************************************************************************)
(* Connection lifecycle of the session alone: connect(), disconnect(), the *)
(* sockets and the setup acknowledgement, with room for two transports.    *)
(***************************************************************************)
MaxConnServices == 2    \* GeminiLiveService instances, connection lifecycle

WithinConnBounds(w) ==
    /\ w.p.turnId <= MaxSessionTurn
    /\ w.s.greetings <= MaxGreet
    /\ Len(w.t) + w.s.connects <= MaxConnServices

ConnStep(op, w, events) == WithinConnBounds(w) /\ Commit(op, w, events)

ConnConnect == ConnStep("connect", doConnect(World), <<>>)

ConnConnectService ==
    \E given \in BOOLEAN :
        /\ session.connects > 0
        /\ ConnStep("step", doConnectService(World, given), <<>>)

ConnConnectInstruction ==
    \E i \in session.instructing :
        ConnStep("step", doConnectInstruction(World, i), <<>>)

ConnDisconnect == ConnStep("disconnect", disconnect(World), <<>>)

ConnSocketOpen ==
    \E i \in 1..Len(services) :
        /\ services[i].ws = "connecting"
        /\ ConnStep("step", [World EXCEPT !.t[i].ws = "open"], <<>>)

ConnSocketClose ==
    \E i \in 1..Len(services) :
        \/ /\ services[i].ws \in {"connecting", "open"}
           /\ ConnStep("step",
                       onDisconnected([World EXCEPT !.t[i].ws = "closed"]),
                       <<Ev("disconnected")>>)
        \/ /\ services[i].closing # "no"
           /\ ConnStep("step",
                       onDisconnected([World EXCEPT !.t[i].closing = "no"]),
                       <<Ev("disconnected")>>)

\* the server acknowledges the setup of service i, once
ConnSetupComplete ==
    \E i \in 1..Len(services) :
        LET m == [kind |-> "setupComplete"]
        IN /\ services[i].ws = "open" /\ ~services[i].setupComplete
           /\ ConnStep("setupComplete", ReceiveResult(i, m),
                       handleMessage(services[i], m).events)

ConnGreetingFire ==
    /\ session.greetings > 0
    /\ ConnStep("step", greetingTimeout(World), <<>>)

ConnNext ==
    \/ ConnConnect
    \/ ConnConnectService
    \/ ConnConnectInstruction
    \/ ConnDisconnect
    \/ ConnSocketOpen
    \/ ConnSocketClose
    \/ ConnSetupComplete
    \/ ConnGreetingFire
    \/ MicStartSettle

Next ==
    \/ Connect
    \/ ConnectService
    \/ ConnectInstruction
    \/ Disconnect
    \/ SocketOpen
    \/ SocketClose
    \/ Receive
    \/ MicFrame
    \/ SpeechStart
    \/ SpeechEnd
    \/ GreetingFire
    \/ LightSilenceFire
    \/ DeepSilenceFire
    \/ TurnCompleteFire200
    \/ TurnCompleteFire1000
    \/ StopSoundSettled
    \/ MicStartSettle
    \/ CooldownElapse
    \/ PlaySoundSettle
    \/ ClearQueueSettle
    \/ GraceTimerFire

\* the session while nobody calls disconnect()
CallNext ==
    \/ Connect
    \/ ConnectService
    \/ ConnectInstruction
    \/ SocketOpen
    \/ SocketClose
    \/ Receive
    \/ MicFrame
    \/ SpeechStart
    \/ SpeechEnd
    \/ GreetingFire
    \/ LightSilenceFire
    \/ DeepSilenceFire
    \/ TurnCompleteFire200
    \/ TurnCompleteFire1000
    \/ StopSoundSettled
    \/ MicStartSettle
    \/ CooldownElapse
    \/ PlaySoundSettle
    \/ ClearQueueSettle
    \/ GraceTimerFire

PlayerNext ==
    \/ PlayAudioCall
    \/ PlaySoundSettle
    \/ StopPlayingCall
    \/ ClearQueueSettle
    \/ StopSoundSettle
    \/ InterruptAICall
    \/ OnTurnCompleteCall
    \/ GraceTimerFire

(***************************************************************************)
(* The summarization call: GeminiRestService.generateJournal.  One step is *)
(* the call up to its first fetch, the settlement of a fetch up to the     *)
(* return, the throw or the backoff, or the end of a backoff up to the     *)
(* next fetch.                                                             *)
(***************************************************************************)
MaxJournalCalls == 2    \* generateJournal calls made one after another

JournalInit ==
    [ pc        |-> "idle",   \* idle / fetch / backoff / returned / thrown
      attempt   |-> 0,        \* the loop variable
      requests  |-> 0,        \* fetch calls made by this call
      responses |-> <<>>,     \* how each fetch of this call settled
      calls     |-> 0 ]       \* calls made so far

\* how a fetch settles: a usable body, a 4xx status, another bad status, a
\* rejected fetch, or a 2xx body without the JSON
Responses == {"ok", "4xx", "5xx", "network", "noJson"}

generateJournalCall(j) ==
    [j EXCEPT !.pc = "fetch", !.attempt = 1, !.requests = 1, !.responses = <<>>,
              !.calls = @ + 1]

\* the fetch settles: return on success; every throw inside the try block,
\* the one for a 4xx status included, lands in the catch block, which waits
\* and goes on while attempt < 3
fetchSettled(j, r) ==
    LET k == [j EXCEPT !.responses = Append(@, r)]
    IN IF r = "ok" THEN [k EXCEPT !.pc = "returned"]
       ELSE IF j.attempt < 3 THEN [k EXCEPT !.pc = "backoff"]
       ELSE [k EXCEPT !.pc = "thrown"]

\* the backoff timeout elapsed: the next iteration fetches
backoffElapsed(j) ==
    [j EXCEPT !.pc = "fetch", !.attempt = @ + 1, !.requests = @ + 1]

(***************************************************************************)
(* calculateStreak.  A calendar day is its distance in days from today (0  *)
(* today, -1 yesterday); an entry's date is the "YYYY-MM-DD" string of a   *)
(* day.  new Date("YYYY-MM-DD") is midnight UTC of that day, and           *)
(* getFullYear/getMonth/getDate read it in local time: the same day where  *)
(* local time is at or ahead of UTC ("east"), the day before where it is   *)
(* behind ("west").                                                        *)
(***************************************************************************)
MaxBack == 3        \* days before today an entry can be dated
MaxEntries == 3     \* journal entries

Zones == {"east", "west"}

\* new Date(dateStr) formatted with the local getters
localDayOfDateString(day, zone) == IF zone = "west" THEN day - 1 ELSE day

SetMax(S) == CHOOSE x \in S : \A y \in S : y <= x

\* Array.from(new Set(...)).sort(descending)
RECURSIVE sortDescending(_)
sortDescending(S) ==
    IF S = {} THEN <<>>
    ELSE <<SetMax(S)>> \o sortDescending(S \ {SetMax(S)})

\* the loop that counts backwards from currentCheckDate
RECURSIVE countBackwards(_, _)
countBackwards(uniqueDates, currentCheckDate) ==
    IF uniqueDates = <<>> THEN 0
    ELSE IF Head(uniqueDates) = currentCheckDate
    THEN 1 + countBackwards(Tail(uniqueDates), currentCheckDate - 1)
    ELSE 0

calculateStreak(entries, zone) ==
    IF Len(entries) = 0 THEN 0
    ELSE LET uniqueDates ==
                 sortDescending({ localDayOfDateString(entries[k], zone) :
                                      k \in 1..Len(entries) })
             latest == uniqueDates[1]
         IN IF latest # 0 /\ latest # -1 THEN 0
            ELSE countBackwards(uniqueDates, localDayOfDateString(latest, zone))

StreakInit == [entries |-> <<>>, zone |-> "east", called |-> FALSE, result |-> 0]

AppInit == [journal |-> JournalInit, streak |-> StreakInit]

EntryDates ==
    UNION { [1..n -> (0 - MaxBack)..0] : n \in 0..MaxEntries }

CalculateStreakCall ==
    /\ ~app.streak.called
    /\ app' = [app EXCEPT !.streak.called = TRUE,
                          !.streak.result = calculateStreak(app.streak.entries,
                                                            app.streak.zone)]
    /\ hist' = [hist EXCEPT !.op = "calculateStreak", !.emitted = <<>>]
    /\ UNCHANGED <<player, services, session, cur>>

StreakNext == CalculateStreakCall

JournalStep(op, j) ==
    /\ app' = [app EXCEPT !.journal = j]
    /\ hist' = [hist EXCEPT !.op = op, !.emitted = <<>>]
    /\ UNCHANGED <<player, services, session, cur>>

GenerateJournalCall ==
    /\ app.journal.pc \in {"idle", "returned", "thrown"}
    /\ app.journal.calls < MaxJournalCalls
    /\ JournalStep("generateJournal", generateJournalCall(app.journal))

FetchSettle ==
    \E r \in Responses :
        /\ app.journal.pc = "fetch"
        /\ JournalStep("fetchSettled", fetchSettled(app.journal, r))

BackoffElapse ==
    /\ app.journal.pc = "backoff"
    /\ JournalStep("backoffElapsed", backoffElapsed(app.journal))

JournalNext == GenerateJournalCall \/ FetchSettle \/ BackoffElapse

HistInit ==
    [op |-> "step", emitted |-> <<>>, barge |-> FALSE, disc |-> FALSE,
     fin |-> FALSE, sent |-> <<>>, vad |-> VadInit, tcId |-> 0]

Init ==
    /\ player = PlayerInit
    /\ services = <<>>
    /\ session = SessionInit
    /\ cur = 0
    /\ hist = HistInit
    /\ app = AppInit

\* one service, constructed and not yet connected
TransportInit ==
    /\ player = PlayerInit
    /\ services = <<ServiceInit>>
    /\ session = SessionInit
    /\ cur = 0
    /\ hist = HistInit
    /\ app = AppInit

TransportSpec == TransportInit /\ [][TransportNext]_vars

GateSpec == TransportInit /\ [][GateNext]_vars

TurnSpec == TransportInit /\ [][TurnNext]_vars

LogSpec == TransportInit /\ [][LogNext]_vars

MoodSpec == TransportInit /\ [][MoodNext]_vars

JournalSpec == Init /\ [][JournalNext]_vars

\* the entries stored and the time zone of the device, before the call
StreakStart ==
    /\ player = PlayerInit
    /\ services = <<>>
    /\ session = SessionInit
    /\ cur = 0
    /\ hist = HistInit
    /\ \E e \in EntryDates, z \in Zones :
           app = [AppInit EXCEPT !.streak = [StreakInit EXCEPT !.entries = e, !.zone = z]]

StreakSpec == StreakStart /\ [][StreakNext]_vars

PlayerSpec == Init /\ [][PlayerNext]_vars

VadSpec == Init /\ [][VadNext]_vars

MuteSpec == Init /\ [][MuteNext]_vars

Spec == Init /\ [][Next]_vars

ConnSpec == Init /\ [][ConnNext]_vars

\* a timeout that was set fires: the two timeouts of the turnComplete
\* listener are never cancelled
CallSpec ==
    /\ Init /\ [][CallNext]_vars
    /\ WF_vars(TurnCompleteFire200)
    /\ WF_vars(TurnCompleteFire1000)

\* C1: pendingChunkCounter is never negative and the playing flag is true
\* exactly when pendingChunkCounter > 0, after any interleaving of playAudio,
\* stopPlaying, interruptAI and onTurnComplete.
C1_CounterAndPlaying ==
    /\ player.pendingChunks >= 0
    /\ player.isPlaying <=> (player.pendingChunks > 0)

\* a chunk of a stopped turn settles after a later chunk was accepted
C1_Witness ==
    /\ player.pendingChunks = 0
    /\ InflightTotal(player) > 0
    /\ player.stopPc = "idle"
    /\ player.turnId > 0

\* C2: from the first step of interruptAI() until its stop/clear calls have
\* settled, no playAudio call is accepted: the counter does not grow and no
\* playback is submitted (so none is submitted under the turn id of the
\* barge-in, which is re-minted only when the wait ends).
C2_RejectedWhileInterrupting ==
    [][(player.intWaiting /\ player'.intWaiting) =>
          /\ player'.pendingChunks <= player.pendingChunks
          /\ InflightTotal(player') <= InflightTotal(player)]_vars

\* C3: a speech-start in AiTalking with no barge-in in progress calls
\* sendInterrupt() exactly once and moves the state to Interrupted (and, when
\* interruptAI() has nothing to wait for, on to UserTalking in the same task);
\* when interruptAI() settles the state becomes UserTalking unless it is Ended;
\* and from the start of the barge-in until the transport has received a
\* turnComplete no audio event is forwarded to playAudio.
C3_BargeIn ==
    [][/\ (hist'.op = "speechStart" /\ session.callState = "AI_TALKING"
              /\ ~session.isInterrupting) =>
              /\ Len(SelectSeq(SpeechStartResult.log,
                               LAMBDA x : x = "sendInterrupt")) = 1
              /\ SpeechStartResult.log[2] = "INTERRUPTED"
              /\ session'.callState = IF player'.intWaiting THEN "INTERRUPTED"
                                      ELSE "USER_TALKING"
       /\ (player.intWaiting /\ ~player'.intWaiting) =>
              session'.callState = IF session.callState = "ENDED" THEN "ENDED"
                                   ELSE "USER_TALKING"
       /\ hist.barge =>
              \A i \in 1..Len(services), m \in SessionMessages :
                  ReceiveOf(i, m) =>
                      SelectSeq(ReceiveResult(i, m).log,
                                LAMBDA x : x = "playAudio") = <<>>]_vars

\* C4: once the state is Ended it stays Ended until connect() is called: no
\* timer and no late transport or VAD event leaves Ended.
C4_EndedTerminal ==
    [][(session.callState = "ENDED" /\ session'.callState # "ENDED") =>
          hist'.op = "connect"]_vars

\* C5: from a disconnect() until connect() is next called the state is Ended,
\* no silence timer and no VAD debounce timer is armed and
\* pendingChunkCounter is 0.
C5_DisconnectQuiesces ==
    hist.disc =>
        /\ session.callState = "ENDED"
        /\ ~session.lightSilenceTimer /\ ~session.deepSilenceTimer
        /\ ~player.speechStartTimer /\ ~player.speechEndTimer
        /\ player.pendingChunks = 0

\* C6: an audio event received in a non-Ended state sets the state to
\* AiTalking, cancels the silence timers and forwards the chunk to playback,
\* unless the turn-completing latch or the barge-in latch is set: then the
\* state, the silence timers and the playback counter are unchanged.
C6_AudioEvent ==
    [][(hist'.emitted # <<>> /\ hist'.emitted[1] = "audio"
           /\ session.callState # "ENDED") =>
          IF session.isTurnCompleting \/ session.isInterrupting
          THEN /\ session'.callState = session.callState
               /\ session'.lightSilenceTimer = session.lightSilenceTimer
               /\ session'.deepSilenceTimer = session.deepSilenceTimer
               /\ player'.pendingChunks = player.pendingChunks
               /\ player'.inflight = player.inflight
          ELSE /\ session'.callState = "AI_TALKING"
               /\ ~session'.lightSilenceTimer /\ ~session'.deepSilenceTimer
               /\ player'.pendingChunks = player.pendingChunks + 1
               /\ InflightTotal(player') = InflightTotal(player) + 1]_vars

\* an audio event was dropped by the barge-in latch alone: the transport had
\* already seen the turnComplete of the interrupted turn, the stop had not
\* settled
C6_Witness ==
    /\ hist.emitted = <<"audio">>
    /\ session.isInterrupting /\ ~session.isTurnCompleting
    /\ session.callState = "INTERRUPTED"
    /\ player.intWaiting

\* C8: the turn-completing latch is cleared only by a barge-in or when the
\* finalization of every turnComplete received so far has finished: no
\* turnComplete timeout is pending any more.
C8_LatchOwnedByTurn ==
    [][(session.isTurnCompleting /\ ~session'.isTurnCompleting) =>
          \/ hist'.op = "speechStart"
          \/ session'.tc200 = 0 /\ session'.tc1000 = 0]_vars

\* C9: the step in which a barge-in starts leaves the turn-completing latch
\* cleared, and the latch is set only by a step that handles a turnComplete
\* event.
C9_BargeInClearsLatch ==
    [][/\ (hist'.op = "speechStart" /\ session.callState = "AI_TALKING"
              /\ ~session.isInterrupting) => ~session'.isTurnCompleting
       /\ (~session.isTurnCompleting /\ session'.isTurnCompleting) =>
              \E k \in DOMAIN hist'.emitted : hist'.emitted[k] = "turnComplete"]_vars

\* a barge-in has just started while the 200 ms timeout of the only
\* turnComplete received so far was still pending
C9_Witness ==
    /\ hist.op = "speechStart"
    /\ session.isInterrupting /\ ~session.isTurnCompleting
    /\ session.tc200 = 1 /\ session.tc1000 = 0
    /\ cur # 0 /\ services[cur].turnCount = 1

\* C7: a second interruptAI() issued while an earlier one still awaits its
\* stopPlaying() is a no-op: as long as the first invocation is waiting, the
\* stop/clear sequence is not started again, the turn id is not re-minted and
\* isInterrupted stays set.
C7_InterruptIdempotent ==
    [][(player.intWaiting /\ player'.intWaiting) =>
          /\ player'.isInterrupted
          /\ player'.turnId = player.turnId
          /\ (player'.stopPc = "clear" => player.stopPc = "clear")]_vars

\* C10: while the transport's interrupted flag is set, a serverContent message
\* without turnComplete emits no event and changes neither accumulator nor the
\* transcript; one with turnComplete clears the flag and emits exactly one
\* turnComplete event (and nothing else).
C10_InterruptedSuppression ==
    [][services[1].isInterrupted =>
          /\ hist'.op = "serverContent+turnComplete" =>
                 /\ ~services'[1].isInterrupted
                 /\ hist'.emitted = <<"turnComplete">>
          /\ hist'.op = "serverContent" =>
                 /\ hist'.emitted = <<>>
                 /\ services'[1].isInterrupted
                 /\ services'[1].currentAiResponse = services[1].currentAiResponse
                 /\ services'[1].currentUserInput = services[1].currentUserInput
                 /\ services'[1].conversationLogs = services[1].conversationLogs]_vars

\* the flag has just been cleared by a turnComplete, which left the text that
\* was accumulated before the interrupt in place
C10_Witness ==
    /\ hist.op = "serverContent+turnComplete"
    /\ hist.emitted = <<"turnComplete">>
    /\ ~services[1].isInterrupted
    /\ services[1].currentUserInput = <<"a">>

\* C11: every inbound serverContent.turnComplete flushes both accumulators:
\* when the turnComplete event is emitted the user and the AI accumulator are
\* empty and the transcript has gained one user entry and one AI entry holding
\* the accumulated text (trimmed; the user text with its whitespace removed),
\* an empty or whitespace-only accumulator adding no entry.
C11_TurnCompleteFlushes ==
    [][hist'.op = "serverContent+turnComplete" =>
          /\ services'[1].currentUserInput = <<>>
          /\ services'[1].currentAiResponse = <<>>
          /\ \E m \in ServerContents :
                LET user == services[1].currentUserInput \o m.inputTranscription
                    ai == services[1].currentAiResponse \o partsText(m.parts)
                              \o m.outputTranscription
                    entry(speaker, text) ==
                        IF trim(text) = <<>> THEN <<>>
                        ELSE <<[speaker |-> speaker, text |-> text]>>
                IN /\ m.turnComplete
                   /\ services'[1].conversationLogs =
                          services[1].conversationLogs
                              \o entry("user", stripSpaces(user))
                              \o entry("ai", trim(ai))]_vars

\* C12: a turnComplete message that carries no fragment and arrives right
\* after a turnComplete that finalized the turn adds no entry to the
\* transcript.
C12_RepeatedTurnComplete ==
    [][(/\ hist.fin
        /\ hist'.op = "serverContent+turnComplete"
        /\ services'[1] = handleMessage(services[1], TurnCompleteOnly).svc) =>
          services'[1].conversationLogs = services[1].conversationLogs]_vars

\* two turnComplete messages in a row ran the finalizers, the first of them
\* having added both entries of the turn
C12_Witness ==
    /\ hist.fin
    /\ hist.op = "serverContent+turnComplete"
    /\ services[1].turnCount = 2
    /\ Len(services[1].conversationLogs) = 2
    /\ services[1].conversationLogs[1].speaker = "user"
    /\ services[1].conversationLogs[2].speaker = "ai"
    /\ services[1].currentUserInput = <<>>
    /\ services[1].currentAiResponse = <<>>

\* C14: sendAudioChunk puts exactly one audio message on the wire when the
\* socket is open, the setup has been acknowledged and sending is not paused,
\* and nothing otherwise; no step puts an audio message on the wire while the
\* setup is unacknowledged or the socket is not open (as after disconnect()).
C14_AudioGate ==
    [][/\ hist'.op = "sendAudioChunk" =>
             hist'.sent = IF /\ services[1].ws = "open"
                             /\ services[1].setupComplete
                             /\ ~services[1].isAudioSendingPaused
                          THEN <<"audio">> ELSE <<>>
       /\ (\E i \in 1..Len(hist'.sent) : hist'.sent[i] = "audio") =>
             /\ services[1].ws = "open"
             /\ services[1].setupComplete
             /\ ~services[1].isAudioSendingPaused]_vars

\* a chunk has been sent on a ready connection
C14_Witness ==
    /\ hist.op = "sendAudioChunk"
    /\ hist.sent = <<"audio">>
    /\ isReady(services[1])

\* C15: sendText has the readiness gate of sendAudioChunk: when the socket is
\* not open, the setup is unacknowledged or sending is paused it sends no
\* message and appends nothing to the transcript; when it sends, it appends a
\* user entry only if recordInHistory is true and the text does not begin with
\* the reserved prefix.
C15_TextGate ==
    [][hist'.op = "sendText" =>
          /\ sendAudioChunk(services[1]) = <<>> =>
                 /\ hist'.sent = <<>>
                 /\ services'[1].conversationLogs = services[1].conversationLogs
          /\ services'[1].conversationLogs # services[1].conversationLogs =>
                 /\ hist'.sent = <<"text">>
                 /\ \E text \in Texts :
                        /\ Head(text) # "("
                        /\ services'[1] = sendText(services[1], text, TRUE)]_vars

\* C16: connected is emitted once per connection, by the setupComplete
\* message: a setupComplete received when the setup is already acknowledged
\* does not emit connected again; and before the acknowledgement every
\* outbound send is rejected.
C16_ConnectedOnce ==
    [][/\ (\E i \in 1..Len(hist'.emitted) : hist'.emitted[i] = "connected") =>
             /\ hist'.op = "setupComplete"
             /\ ~services[1].setupComplete
       /\ (/\ ~services[1].setupComplete
           /\ hist'.op \in {"sendText", "sendAudioChunk", "reminder"}) =>
             hist'.sent = <<>>]_vars

\* C17: at most one transport connection exists per session at any time: a
\* connect() made while a connection is opening or open creates no second
\* transport.
C17_OneTransport ==
    Cardinality({ i \in 1..Len(services) :
                      services[i].ws \in {"connecting", "open"} }) <= 1

\* C13: every turnComplete event sets the turn-completing latch and pauses
\* the sending of audio on the current transport; and, whatever interleaves
\* short of disconnect(), a set latch or paused sending leads to a state with
\* the latch clear and sending resumed.
C13_PauseIsResumed ==
    /\ [][hist'.op = "serverContent+turnComplete" =>
             /\ session'.isTurnCompleting
             /\ cur # 0 => services'[cur].isAudioSendingPaused]_vars
    /\ (session.isTurnCompleting \/ (cur # 0 /\ services[cur].isAudioSendingPaused))
           ~> (/\ ~session.isTurnCompleting
               /\ cur # 0 => ~services[cur].isAudioSendingPaused)

\* both timeouts of a turnComplete have run: the latch is clear and sending
\* is resumed on the transport that finished a turn
C13_Witness ==
    /\ cur # 0
    /\ services[cur].turnCount > 0
    /\ session.tc200 = 0 /\ session.tc1000 = 0
    /\ ~session.isTurnCompleting
    /\ ~services[cur].isAudioSendingPaused

\* C18: with the detector not suppressed and not speaking, an unbroken run of
\* loud frames that lasts the speech debounce produces exactly one
\* speech-start event, further loud frames of the run producing none; and a
\* frame that is not loud, coming while the debounce is pending, neither
\* cancels nor restarts it.
C18_SpeechStartDebounce ==
    /\ [](hist.vad.run > 0 => hist.vad.runStarts <= 1)
    /\ [](hist.vad.run >= SpeechDebounceFrames + 2 => hist.vad.runStarts = 1)
    /\ [][(/\ hist'.op = "frame" /\ hist'.vad.level # "loud"
           /\ ~vadSuppressed(player)
           /\ ~player.wasSpeaking /\ player.speechStartTimer) =>
             /\ player'.speechStartTimer
             /\ hist'.vad.startAge = hist.vad.startAge + 1]_vars

\* a run of loud frames longer than the debounce has fired its one event and
\* is going on
C18_Witness ==
    /\ hist.op = "frame"
    /\ hist.vad.run >= SpeechDebounceFrames + 2
    /\ hist.vad.runStarts = 1
    /\ player.wasSpeaking
    /\ ~player.speechStartTimer

\* C19: a debounce timer fires its event only if no frame of the opposite
\* class was classified while it was pending: speech-start only if no frame
\* below silenceThreshold came during the speech debounce, speech-end only if
\* no frame above speechThreshold came during the silence debounce.
C19_OppositeCancels ==
    [][/\ hist'.op = "speechStartTimeout" => ~hist.vad.startOppo
       /\ hist'.op = "speechEndTimeout" => ~hist.vad.endOppo]_vars

C21_NoEventWhileSuppressed ==
    [][hist'.op \in {"speechStartTimeout", "speechEndTimeout"} =>
          /\ ~vadSuppressed(player)
          /\ player.micOn]_vars

\* C22: pendingChunkCounter equals the number of chunks of the current turn
\* that playAudio accepted and whose playback attempt has not completed, also
\* after stopPlaying / interruptAI while chunks of the superseded turn are
\* still completing.
C22_CounterIsPendingOfTurn ==
    player.pendingChunks = player.inflight[player.turnId]

\* C23: a new turn id is minted at every barge-in and at every turn
\* completion: when an interruptAI has run to its end the turn id is a new
\* one, and when the timeout of an onTurnComplete has run the turn id is no
\* longer the one the player had when onTurnComplete was called.
C23_TurnIdMinted ==
    [][/\ (player.intWaiting /\ ~player'.intWaiting) =>
             player'.turnId > player.turnId
       /\ player'.graceTimers < player.graceTimers =>
             player'.turnId # hist.tcId]_vars

\* C24: every accepted playAudio call decrements pendingChunkCounter once,
\* whether its playback attempt succeeds or fails or its payload is too
\* short; a settled attempt leaves playAudio accepting chunks; and once all
\* attempts have settled the counter is 0 and playback is marked finished.
C24_DecrementOnce ==
    /\ [](InflightTotal(player) = 0 =>
              player.pendingChunks = 0 /\ ~player.isPlaying)
    /\ [](~player.isInterrupted =>
              /\ playAudio(player, "ok").pendingChunks = player.pendingChunks + 1
              /\ playAudio(player, "short").pendingChunks = player.pendingChunks)
    /\ [][/\ InflightTotal(player') < InflightTotal(player) =>
                player'.pendingChunks =
                    IF player.pendingChunks > 0 THEN player.pendingChunks - 1 ELSE 0
          /\ InflightTotal(player') > InflightTotal(player) =>
                player'.pendingChunks = player.pendingChunks + 1]_vars

\* every accepted chunk has been settled or dropped as too short, with no
\* stop since the last one was accepted
C24_Witness ==
    /\ InflightTotal(player) = 0
    /\ player.pendingChunks = 0 /\ ~player.isPlaying
    /\ player.isAiPlaying
    /\ player.cooldown
    /\ player.stopPc = "idle" /\ ~player.isInterrupted

\* C25: a silence prompt is sent only when its full delay has passed since
\* the most recent activity, so no silence timer that was armed before an
\* activity is left running by it: a speech start, an accepted model audio
\* chunk and a turn completion each leave both timers cancelled (speech end
\* re-arms them), and at most one timer of each kind is pending.
C25_ActivityResetsSilence ==
    [][(\/ hist'.op = "speechStart"
        \/ hist'.op = "serverContent+turnComplete"
        \/ /\ hist'.op = "serverContent"
           /\ player'.pendingChunks > player.pendingChunks) =>
          /\ ~session'.lightSilenceTimer
          /\ ~session'.deepSilenceTimer]_vars

\* a step that ran the callback of the light / deep silence timeout
LightSilenceFired ==
    /\ session.lightSilenceTimer /\ ~session'.lightSilenceTimer
    /\ session'.deepSilenceTimer = session.deepSilenceTimer
    /\ hist'.op = "step" /\ hist'.emitted = <<>>

DeepSilenceFired ==
    /\ session.deepSilenceTimer /\ ~session'.deepSilenceTimer
    /\ ~session.lightSilenceTimer
    /\ hist'.op = "step" /\ hist'.emitted = <<>>

Transcripts == [i \in 1..Len(services) |-> services[i].conversationLogs]

\* C26: when the deep silence timeout elapses with the session in Listening,
\* or in AiThinking after the light prompt, its callback sends the deep
\* prompt exactly once, and neither it nor the light timeout's callback
\* changes the transcript.
C26_DeepPromptOnce ==
    [][/\ (DeepSilenceFired /\ session.callState \in {"LISTENING", "AI_THINKING"}) =>
             /\ SelectSeq(silenceTimeout(World, "deepSilenceTimer", "deepPrompt").log,
                          LAMBDA x : x = "deepPrompt") = <<"deepPrompt">>
             /\ Transcripts' = Transcripts
       /\ LightSilenceFired => Transcripts' = Transcripts]_vars

\* a step that ran the callback of a greeting timeout
GreetingFired == session'.greetings < session.greetings

\* C27: the 'connected' event sets Listening, starts recording and schedules
\* one greeting; the greeting timeout's callback puts the greeting on the
\* wire once, adds no transcript entry and sets AiThinking; a step that
\* accepted a model audio chunk for playback ends in AiTalking.
C27_GreetingScenario ==
    [][/\ (\E k \in 1..Len(hist'.emitted) : hist'.emitted[k] = "connected") =>
             /\ session'.callState = "LISTENING"
             /\ player'.micPending \/ player'.micOn
             /\ session'.greetings = session.greetings + 1
       /\ GreetingFired =>
             /\ sendTextWire(services[1]) = <<"text">>
             /\ session'.callState = "AI_THINKING"
             /\ Transcripts' = Transcripts
       /\ InflightTotal(player') > InflightTotal(player) =>
             session'.callState = "AI_TALKING"]_vars

IsPrefix(a, b) == Len(a) <= Len(b) /\ SubSeq(b, 1, Len(a)) = a

\* C28: the transcript is append-only: sendText, an inbound message,
\* sendInterrupt, a socket error, a socket close and disconnect() each leave
\* the entries recorded so far unchanged and in order, so they can be read
\* after a failure or a disconnect.
C28_TranscriptAppendOnly ==
    [][IsPrefix(services[1].conversationLogs, services'[1].conversationLogs)]_vars

\* a user entry and an AI entry are held and disconnect() has just run
C28_Witness ==
    /\ Len(services[1].conversationLogs) = 2
    /\ services[1].conversationLogs[1].speaker = "user"
    /\ services[1].conversationLogs[2].speaker = "ai"
    /\ services[1].ws = "null"
    /\ hist.op = "disconnect"

\* a server turn in one message: the model's response as output
\* transcription, and turnComplete
ResponseTurn(resp) ==
    [ kind |-> "serverContent", parts |-> <<>>, inputTranscription |-> <<>>,
      outputTranscription |-> resp, turnComplete |-> TRUE ]

\* the transcript after sendText(text, true) and then the server turn
RoundTrip(t, text, resp) ==
    handleMessage(sendText(t, text, TRUE), ResponseTurn(resp)).svc.conversationLogs

\* the texts that do not start with the prefix reserved for directives
PlainTexts == { text \in Texts : Head(text) # "(" }

\* C29: on a ready connection with nothing accumulated from another turn,
\* sendText(text, true) with a text that is no directive, followed by a
\* server turn that carries the response and ends with turnComplete, adds
\* exactly one user entry equal to trim(text) and then exactly one AI entry
\* holding the response.
C29_RoundTrip ==
    (/\ isReady(services[1])
     /\ services[1].currentUserInput = <<>>
     /\ services[1].currentAiResponse = <<>>) =>
        \A text \in PlainTexts :
            RoundTrip(services[1], text, <<"a">>) =
                services[1].conversationLogs
                    \o << [speaker |-> "user", text |-> trim(text)],
                          [speaker |-> "ai", text |-> <<"a">>] >>

\* C30: a frame delivered while the mute flag is set reaches neither the VAD
\* nor the outbound audio callback and changes nothing; toggling the mute
\* leaves the recording state as it was; a frame delivered while the flag
\* is clear, the first one after un-muting included, is passed to both.
C30_MuteGate ==
    [][/\ hist'.op = "frame" =>
             IF player.isMuted
             THEN hist'.emitted = <<>> /\ player' = player
             ELSE /\ hist'.emitted = <<"audioData">>
                  /\ player' = processVAD(player, hist'.vad.level)
       /\ hist'.op \in {"toggleMute", "render"} =>
             /\ player'.micOn = player.micOn
             /\ player'.micPending = player.micPending]_vars

\* muted with the microphone on: a loud frame that would have armed the
\* speech-start timeout was dropped
C30_Witness ==
    /\ player.isMuted /\ player.micOn
    /\ hist.op = "frame" /\ hist.emitted = <<>> /\ hist.vad.level = "loud"
    /\ ~vadSuppressed(player) /\ ~player.wasSpeaking
    /\ ~player.speechStartTimer

\* the texts of the three most recent user entries of the transcript
ThreeLatestUserTexts(t) ==
    LET users == lastThree(SelectSeq(t.conversationLogs,
                                     LAMBDA e : e.speaker = "user"))
    IN [k \in 1..Len(users) |-> users[k].text]

\* C31: after inferMood the mood is the first in the order sad, frustrated,
\* anxious, tired, excited, happy, calm whose keyword occurs in the three
\* most recent user entries of the transcript, and neutral when none does.
C31_MoodOfLatestUserEntries ==
    hist.op = "inferMood" =>
        LET words == joinTexts(ThreeLatestUserTexts(services[1]))
        IN services[1].currentMood =
               IF \E n \in 1..7 : includesKeyword(words, priorityOrder[n])
               THEN priorityOrder[CHOOSE n \in 1..7 :
                        /\ includesKeyword(words, priorityOrder[n])
                        /\ \A j \in 1..(n - 1) : ~includesKeyword(words, priorityOrder[j])]
               ELSE "neutral"

\* C32: generateJournal makes at most 3 requests, returns at the first
\* success, and makes no further request after a 4xx response: it has then
\* thrown after exactly that attempt.
C32_NoRetryAfterClientError ==
    LET j == app.journal
    IN /\ j.requests <= 3
       /\ j.requests = Len(j.responses) + (IF j.pc = "fetch" THEN 1 ELSE 0)
       /\ (\E k \in 1..Len(j.responses) : j.responses[k] = "ok") =>
              j.pc = "returned" /\ j.responses[Len(j.responses)] = "ok"
       /\ \A k \in 1..Len(j.responses) :
              j.responses[k] = "4xx" => j.pc = "thrown" /\ k = Len(j.responses)

\* the days that have an entry
EntryDays == { app.streak.entries[k] : k \in 1..Len(app.streak.entries) }

\* the number of consecutive days with an entry, counted backwards from day
RECURSIVE RunFrom(_)
RunFrom(day) == IF day \in EntryDays THEN 1 + RunFrom(day - 1) ELSE 0

\* C33: calculateStreak returns the number of consecutive calendar days
\* with at least one entry, counted backwards from today if today has an
\* entry, otherwise from yesterday; duplicates count once and the first
\* missing day ends the count.
C33_StreakOfEntries ==
    app.streak.called =>
        app.streak.result = IF 0 \in EntryDays THEN RunFrom(0) ELSE RunFrom(-1)

\* C34: no silence timer is pending while the state is UserTalking, so no
\* silence prompt is sent while the user is detected as speaking.
C34_NoSilenceTimerWhileUserTalking ==
    session.callState = "USER_TALKING" =>
        ~session.lightSilenceTimer /\ ~session.deepSilenceTimer

\* C35: while the state is UserTalking the transport's outbound audio is
\* not paused, so sendAudioChunk does not drop the frames of the utterance.
C35_NotPausedWhileUserTalking ==
    (session.callState = "USER_TALKING" /\ cur # 0) =>
        ~services[cur].isAudioSendingPaused

\* C36: handling a turnComplete leaves the transport's interrupted flag
\* clear, and a barge-in does not set the flag when the turn it interrupts
\* has already completed (the step before it handled that turnComplete), so
\* the flag never outlives the interrupted turn into the next one.
C36_InterruptEndsWithItsTurn ==
    [][/\ (hist'.op = "serverContent+turnComplete" /\ cur' # 0) =>
               ~services'[cur'].isInterrupted
       /\ (/\ cur # 0 /\ cur' = cur
           /\ ~services[cur].isInterrupted
           /\ services'[cur].isInterrupted) =>
               hist.op # "serverContent+turnComplete"]_vars

\* C37: the close notification of a transport on which disconnect() was
\* called earlier, delivered while a later connect() has made another
\* transport current, changes neither the session's state and timers nor
\* the recording and playback of the player.
C37_StaleTransportIsInert ==
    [][\A i \in 1..Len(services) :
         (/\ services[i].closing # "no"
          /\ Len(services') = Len(services)
          /\ services'[i].closing = "no"
          /\ cur # 0 /\ cur # i)
             => (session' = session /\ player' = player)]_vars

(***************************************************************************)
(* VAD suppression around one AI turn after another, with time passing:    *)
(* every playSound promise settles, every onTurnComplete timeout fires and *)
(* the 1.5 s after lastPlaybackTimeRef elapse.  Here hist.op names the     *)
(* last call made on the hook (playAudio, onTurnComplete or stopPlaying);  *)
(* settlements and timeouts leave it alone.                                *)
(***************************************************************************)
SuppressCall(op) ==
    /\ hist' = [hist EXCEPT !.op = op, !.emitted = <<>>]
    /\ UNCHANGED <<services, session, cur, app>>

SuppressPlayAudio ==
    \E chunk \in Chunks :
        /\ InflightTotal(player) < MaxInflight
        /\ player' = playAudio(player, chunk)
        /\ SuppressCall("playAudio")

SuppressTurnComplete ==
    /\ player.graceTimers < MaxGrace
    /\ player' = onTurnComplete(player)
    /\ SuppressCall("onTurnComplete")

SuppressStopPlaying ==
    /\ ~player.isStopping
    /\ player' = stopPlaying(player)
    /\ SuppressCall("stopPlaying")

SuppressPlaySoundSettle ==
    \E tag \in TurnIds :
        /\ player.inflight[tag] > 0
        /\ player' = playSoundSettled(player, tag)
        /\ UNCHANGED <<services, session, cur, hist, app>>

SuppressGraceTimerFire ==
    /\ player.graceTimers > 0
    /\ player' = graceTimeout(player)
    /\ UNCHANGED <<services, session, cur, hist, app>>

SuppressCooldownElapse ==
    /\ player.cooldown
    /\ player' = [player EXCEPT !.cooldown = FALSE]
    /\ UNCHANGED <<services, session, cur, hist, app>>

SuppressStopSettle ==
    /\ player.stopPc # "idle"
    /\ player' = IF player.stopPc = "clear"
                 THEN [player EXCEPT !.stopPc = "stop"]
                 ELSE stopSettled(player)
    /\ UNCHANGED <<services, session, cur, hist, app>>

SuppressNext ==
    \/ SuppressPlayAudio
    \/ SuppressTurnComplete
    \/ SuppressStopPlaying
    \/ SuppressPlaySoundSettle
    \/ SuppressGraceTimerFire
    \/ SuppressCooldownElapse
    \/ SuppressStopSettle

SuppressSpec ==
    /\ Init /\ [][SuppressNext]_vars
    /\ WF_vars(SuppressPlaySoundSettle)
    /\ WF_vars(SuppressGraceTimerFire)
    /\ WF_vars(SuppressCooldownElapse)
    /\ WF_vars(SuppressStopSettle)

\* C38: once the last call on the player was onTurnComplete and no chunk is
\* pending, frames are eventually classified again (no chunk pending, the
\* AI-playing flag clear, the cool-down over), unless a further playAudio or
\* stopPlaying call is made first.
C38_SuppressionEnds ==
    (hist.op = "onTurnComplete" /\ player.pendingChunks = 0)
        ~> (~vadSuppressed(player) \/ hist.op # "onTurnComplete")

\* the session while nobody calls disconnect(), with the native stop calls of
\* stopPlaying settling and the turnComplete timeouts firing
BargeSpec ==
    /\ Init /\ [][CallNext]_vars
    /\ WF_vars(TurnCompleteFire200)
    /\ WF_vars(TurnCompleteFire1000)
    /\ WF_vars(ClearQueueSettle)
    /\ WF_vars(StopSoundSettled)

\* C39: while the barge-in latch is set the state is not AI_TALKING, no
\* message a transport can receive makes the session call playAudio, and a
\* speech-start calls no sendInterrupt() and leaves the latch and the
\* player as they are; the latch is always eventually cleared.
C39_BargeInLatch ==
    /\ [](session.isInterrupting => session.callState # "AI_TALKING")
    /\ [][session.isInterrupting =>
              /\ \A i \in 1..Len(services), m \in SessionMessages :
                     ReceiveOf(i, m) =>
                         SelectSeq(ReceiveResult(i, m).log,
                                   LAMBDA x : x = "playAudio") = <<>>
              /\ hist'.op = "speechStart" =>
                     /\ SelectSeq(SpeechStartResult.log,
                                  LAMBDA x : x = "sendInterrupt") = <<>>
                     /\ session'.isInterrupting
                     /\ player'.intWaiting = player.intWaiting
                     /\ player'.stopPc = player.stopPc]_vars
    /\ (session.isInterrupting ~> ~session.isInterrupting)

\* a barge-in is waiting for stopPlaying() to settle
C39_Witness ==
    /\ session.isInterrupting
    /\ player.intWaiting
    /\ session.callState = "INTERRUPTED"

\* C40: at most one debounce timer is armed, the speech-start timer only
\* while not speaking and the speech-end timer only while speaking; a
\* speech-start event is fired only while not speaking and sets speaking, a
\* speech-end event only while speaking and clears it, and nothing else
\* changes speaking except stopRecording, which clears it, so that within
\* one recording the two events alternate and speech-start comes first.
C40_VadAlternates ==
    /\ [](/\ ~(player.speechStartTimer /\ player.speechEndTimer)
          /\ player.speechStartTimer => ~player.wasSpeaking
          /\ player.speechEndTimer => player.wasSpeaking)
    /\ [][/\ hist'.op = "speechStartTimeout" =>
                 ~player.wasSpeaking /\ player'.wasSpeaking
          /\ hist'.op = "speechEndTimeout" =>
                 player.wasSpeaking /\ ~player'.wasSpeaking
          /\ player'.wasSpeaking # player.wasSpeaking =>
                 \/ hist'.op \in {"speechStartTimeout", "speechEndTimeout"}
                 \/ /\ ~player'.wasSpeaking
                    /\ ~player'.micOn /\ ~player'.micPending
          /\ (~player.micOn /\ ~player.micPending /\ player'.micPending) =>
                 ~player'.wasSpeaking]_vars

\* a speech-end event has just been fired in a running recording
C40_Witness ==
    /\ hist.op = "speechEndTimeout"
    /\ player.micOn
    /\ ~player.wasSpeaking
    /\ ~player.speechEndTimer

====
